---------------------------- MODULE Spec2Model ----------------------------
(***************************************************************************)
(* Model of src/jira_mermaid_chart_generator.py: the burn-up aggregation   *)
(* (calculate_story_points_over_time), the velocity forecast               *)
(* (calculate_velocity_forecast) and the part of main() that joins them    *)
(* (actual_data_length, chart_velocity, the grid extension).               *)
(*                                                                         *)
(* Numbers.  Python floats are modelled as exact reals.  A rational is a   *)
(* pair <<n, d>> in lowest terms with d > 0.  The only irrational the code *)
(* can produce is variance ** 0.5, so a value is a record [a, b] meaning   *)
(* a + b * sqrt(rad), where rad is the variance of the call.  Story points *)
(* and completed values are integers.                                      *)
(*                                                                         *)
(* Dates.  A datetime is an integer number of ticks, TicksPerDay ticks to  *)
(* a day; datetime.date() is DateOf, strftime('%Y-%m-%d') keeps only the   *)
(* day, strptime gives midnight of it.  Bucket labels (date strings) are   *)
(* therefore day numbers.                                                  *)
(*                                                                         *)
(* None is the empty sequence, a present value v is <<v>>.                 *)
(***************************************************************************)
EXTENDS Integers, Sequences, FiniteSets, TLC

VARIABLES
    pc,                   \* position in the program
    error,                \* the exception that ended the run, or "none"
    issues,               \* main: issues (the fetched tickets)
    zakkuri_point_field,  \* TRUE when JIRA_ZAKKURI_POINT_FIELD is set
    start_date,           \* ticks
    end_date,             \* ticks
    interval_days,
    today,                \* datetime.now().date(), a day number
    current_date,         \* loop variable of the grid loop, ticks
    grid,                 \* calculate_story_points_over_time: dates (datetimes)
    dates,                \* date strings (day numbers)
    total_points,
    completed_points,
    actual_data_length,
    target_value,
    api_avg_velocity,
    avg_sprint_duration,
    api_std_dev,
    velocity_multiplier,  \* rational
    chart_velocity,       \* rational
    num_points,
    result                \* what calculate_velocity_forecast returned

vars == <<pc, error, issues, zakkuri_point_field, start_date, end_date,
          interval_days, today, current_date, grid, dates, total_points,
          completed_points, actual_data_length, target_value,
          api_avg_velocity, avg_sprint_duration, api_std_dev,
          velocity_multiplier, chart_velocity, num_points, result>>

----------------------------------------------------------------------------
(* Bounds of the model *)

\* longest completed series handed to calculate_velocity_forecast directly
MaxLen == 4

----------------------------------------------------------------------------
(* Exact arithmetic *)

Abs(x) == IF x < 0 THEN -x ELSE x

Min(a, b) == IF a <= b THEN a ELSE b

RECURSIVE GCD(_, _)
GCD(a, b) == IF b = 0 THEN a ELSE GCD(b, a % b)

\* the rational n/d in lowest terms, d # 0
Q(n, d) ==
    LET g == GCD(Abs(n), Abs(d))
        s == IF d < 0 THEN -1 ELSE 1
    IN  <<(s * n) \div g, (s * d) \div g>>

QInt(i) == <<i, 1>>
QAdd(x, y) == Q(x[1] * y[2] + y[1] * x[2], x[2] * y[2])
QSub(x, y) == Q(x[1] * y[2] - y[1] * x[2], x[2] * y[2])
QMul(x, y) == Q(x[1] * y[1], x[2] * y[2])
QDiv(x, y) == Q(x[1] * y[2], x[2] * y[1])
QLe(x, y) == x[1] * y[2] <= y[1] * x[2]
QLt(x, y) == x[1] * y[2] < y[1] * x[2]
QZero == <<0, 1>>

\* int(x) of a float: truncation toward zero
QTrunc(x) == IF x[1] >= 0 THEN x[1] \div x[2] ELSE -((-x[1]) \div x[2])

IsSquare(n) == n >= 0 /\ \E k \in 0..n : k * k = n
ISqrt(n) == CHOOSE k \in 0..n : k * k = n
QIsSquare(x) == IsSquare(x[1]) /\ IsSquare(x[2])

\* a + b * sqrt(rad)
SVal(a, b) == [a |-> a, b |-> b]
SRat(q) == SVal(q, QZero)
SInt(i) == SRat(QInt(i))
SZero == SInt(0)
SAdd(x, y) == SVal(QAdd(x.a, y.a), QAdd(x.b, y.b))
SSub(x, y) == SVal(QSub(x.a, y.a), QSub(x.b, y.b))
SScale(q, x) == SVal(QMul(q, x.a), QMul(q, x.b))

\* x >= 0, where sqrt(rad) is irrational whenever x.b # 0
SGe0(x, rad) ==
    IF x.b = QZero THEN QLe(QZero, x.a)
    ELSE LET a2 == QMul(x.a, x.a)
             b2r == QMul(QMul(x.b, x.b), rad)
         IN  IF QLe(QZero, x.a) /\ QLe(QZero, x.b) THEN TRUE
             ELSE IF QLe(x.a, QZero) /\ QLe(x.b, QZero) THEN FALSE
             ELSE IF QLe(QZero, x.a) THEN QLe(b2r, a2)
             ELSE QLe(a2, b2r)

SGe(x, y, rad) == SGe0(SSub(x, y), rad)

\* variance ** 0.5
SSqrt(v) ==
    IF QIsSquare(v) THEN SRat(Q(ISqrt(v[1]), ISqrt(v[2])))
    ELSE SVal(QZero, QInt(1))

----------------------------------------------------------------------------
(* None and present values *)

None == <<>>
Some(v) == <<v>>
IsNone(o) == o = <<>>
Get(o) == o[1]

RECURSIVE SumSeq(_)
SumSeq(s) == IF s = <<>> THEN 0 ELSE s[1] + SumSeq(Tail(s))

RECURSIVE QSumSeq(_)
QSumSeq(s) == IF s = <<>> THEN QZero ELSE QAdd(s[1], QSumSeq(Tail(s)))

\* [0] * n
Zeros(n) == [i \in 1..n |-> SZero]

----------------------------------------------------------------------------
(* calculate_velocity_forecast *)

\* z_value = 1.282 = ZNum / ZDen
ZNum == 1282
ZDen == 1000
z_value == Q(ZNum, ZDen)

\* completed_points[:actual_data_length], for actual_data_length >= 1
ActualCompleted(completed, adl) == SubSeq(completed, 1, Min(adl, Len(completed)))

\* mutant: an increment of 0 is dropped as well
VelocitiesPositive(actual) ==
    SelectSeq([i \in 1..(Len(actual) - 1) |-> actual[i + 1] - actual[i]],
              LAMBDA v : v > 0)

\* the increments of the actual data that are >= 0, in order
Velocities(actual) ==
    SelectSeq([i \in 1..(Len(actual) - 1) |-> actual[i + 1] - actual[i]],
              LAMBDA v : v >= 0)

\* sum((v - base_velocity) ** 2 for v in velocities) / len(velocities)
Variance(velocities, base_velocity) ==
    QDiv(QSumSeq([i \in 1..Len(velocities) |->
                    LET dv == QSub(QInt(velocities[i]), base_velocity)
                    IN  QMul(dv, dv)]),
         QInt(Len(velocities)))

\* the estimate from the data: base_velocity stays unassigned (bound = FALSE)
\* when fewer than two increments were kept
DerivedEstimate(velocities, multiplier) ==
    IF Len(velocities) < 2
    THEN [bound |-> FALSE, avg_velocity |-> QZero, std_dev |-> SZero, rad |-> QZero]
    ELSE LET base_velocity == Q(SumSeq(velocities), Len(velocities))
             variance == Variance(velocities, base_velocity)
         IN  [bound |-> TRUE,
              avg_velocity |-> QMul(base_velocity, multiplier),
              std_dev |-> SSqrt(variance),
              rad |-> variance]

ApiUsable(api_avg, sprint_duration) ==
    /\ ~IsNone(api_avg) /\ Get(api_avg) > 0
    /\ ~IsNone(sprint_duration) /\ Get(sprint_duration) > 0

\* mutant: the API's figures are taken per sprint, not per chart period
ExternalOverrideUnscaled(est, interval, api_avg, sprint_duration, api_std, multiplier) ==
    IF ApiUsable(api_avg, sprint_duration)
    THEN [bound |-> TRUE,
          avg_velocity |-> QMul(QInt(Get(api_avg)), multiplier),
          std_dev |-> IF ~IsNone(api_std) /\ Get(api_std) > 0
                      THEN SInt(Get(api_std))
                      ELSE est.std_dev,
          rad |-> est.rad]
    ELSE est

\* the API's velocity replaces the mean, and its standard deviation, when
\* present and > 0, replaces the standard deviation
ExternalOverride(est, interval, api_avg, sprint_duration, api_std, multiplier) ==
    IF ApiUsable(api_avg, sprint_duration)
    THEN LET ratio == Q(interval, Get(sprint_duration))
             base_velocity == QMul(QInt(Get(api_avg)), ratio)
         IN  [bound |-> TRUE,
              avg_velocity |-> QMul(base_velocity, multiplier),
              std_dev |-> IF ~IsNone(api_std) /\ Get(api_std) > 0
                          THEN SRat(QMul(QInt(Get(api_std)), ratio))
                          ELSE est.std_dev,
              rad |-> est.rad]
    ELSE est

\* max(0, x)
SMax0(x, rad) == IF SGe0(x, rad) THEN x ELSE SZero

\* mutant: the band is subtracted on the optimistic side
OptimisticVelocitySubtracts(est, multiplier) ==
    SSub(SRat(est.avg_velocity), SScale(QMul(z_value, multiplier), est.std_dev))

OptimisticVelocity(est, multiplier) ==
    SAdd(SRat(est.avg_velocity), SScale(QMul(z_value, multiplier), est.std_dev))

PessimisticVelocity(est, multiplier) ==
    SMax0(SSub(SRat(est.avg_velocity),
               SScale(QMul(z_value, multiplier), est.std_dev)), est.rad)

\* mutant: the first projected bucket counts as zero periods ahead
PeriodsAheadFromZero(i, adl) == i - adl

\* periods_ahead of index i (0-based) of the forecast loop
PeriodsAhead(i, adl) == i - adl + 1

\* one forecast line: the actual values, then last_actual_value + velocity * periods_ahead
ForecastLine(actual, n, adl, velocity) ==
    [k \in 1..n |->
        IF k - 1 < adl
        THEN SInt(actual[k])
        ELSE SAdd(SInt(actual[adl]),
                  SScale(QInt(PeriodsAhead(k - 1, adl)), velocity))]

\* mutant: the early return gives empty lists
DegenerateForecastEmpty(n) ==
    [raised |-> "none",
     forecast_avg |-> <<>>, avg_velocity |-> SZero,
     forecast_optimistic |-> <<>>, forecast_pessimistic |-> <<>>,
     optimistic_velocity |-> SZero, pessimistic_velocity |-> SZero,
     std_dev |-> SZero, rad |-> QZero]

\* the early return for an empty series or no actual data
DegenerateForecast(n) ==
    [raised |-> "none",
     forecast_avg |-> Zeros(n), avg_velocity |-> SZero,
     forecast_optimistic |-> Zeros(n), forecast_pessimistic |-> Zeros(n),
     optimistic_velocity |-> SZero, pessimistic_velocity |-> SZero,
     std_dev |-> SZero, rad |-> QZero]

\* an exception leaves no return value
Raised(exc) == [DegenerateForecast(0) EXCEPT !.raised = exc]

calculate_velocity_forecast(completed, n, interval, adl, api_avg, sprint_duration, api_std, multiplier) ==
    IF completed = <<>> \/ adl < 1
    THEN DegenerateForecast(n)
    ELSE LET actual == ActualCompleted(completed, adl)
             derived == DerivedEstimate(Velocities(actual), multiplier)
             est == ExternalOverride(derived, interval, api_avg,
                                     sprint_duration, api_std, multiplier)
             \* if actual_data_length > len(actual_completed_points)
             adl2 == Min(adl, Len(actual))
             opt == OptimisticVelocity(est, multiplier)
             pes == PessimisticVelocity(est, multiplier)
         IN  IF ~est.bound
             THEN \* print(... {base_velocity:.2f} ...) reads an unassigned local
                  Raised("UnboundLocalError")
             ELSE [raised |-> "none",
                   forecast_avg |-> ForecastLine(actual, n, adl2, SRat(est.avg_velocity)),
                   avg_velocity |-> SRat(est.avg_velocity),
                   forecast_optimistic |-> ForecastLine(actual, n, adl2, opt),
                   forecast_pessimistic |-> ForecastLine(actual, n, adl2, pes),
                   optimistic_velocity |-> opt,
                   pessimistic_velocity |-> pes,
                   std_dev |-> est.std_dev,
                   rad |-> est.rad]

NoResult == Raised("none")

\* main line 783, and a direct call of the method
Forecast ==
    /\ pc = "forecast"
    /\ result' = calculate_velocity_forecast(completed_points, num_points,
                     interval_days, actual_data_length, api_avg_velocity,
                     avg_sprint_duration, api_std_dev, velocity_multiplier)
    /\ error' = result'.raised
    /\ pc' = IF result'.raised = "none" THEN "done" ELSE "error"
    /\ UNCHANGED <<issues, zakkuri_point_field, start_date, end_date,
                   interval_days, today, current_date, grid, dates,
                   total_points, completed_points, actual_data_length,
                   target_value, api_avg_velocity, avg_sprint_duration,
                   api_std_dev, velocity_multiplier, chart_velocity, num_points>>

----------------------------------------------------------------------------
(* Direct calls of calculate_velocity_forecast with arbitrary arguments *)

RECURSIVE SeqsUpTo(_, _)
SeqsUpTo(S, n) ==
    IF n = 0 THEN {<<>>}
    ELSE LET shorter == SeqsUpTo(S, n - 1)
         IN  shorter \cup {Append(s, x) : s \in {t \in shorter : Len(t) = n - 1}, x \in S}

CompletedValues == {0, 1, 2}
IntervalValues == {-1, 2}
MultiplierValues == {Q(-1, 1), Q(0, 1), Q(1, 2), Q(2, 1)}
\* (api_avg_velocity, avg_sprint_duration, api_std_dev)
ApiArguments ==
    {<<None, None, None>>, <<Some(0), Some(0), Some(0)>>,
     <<Some(3), Some(2), None>>, <<Some(3), Some(2), Some(0)>>,
     <<Some(3), Some(2), Some(1)>>, <<Some(3), Some(0), Some(1)>>,
     <<Some(3), None, Some(1)>>, <<Some(-1), Some(2), Some(1)>>}

InitForecast ==
    /\ pc = "forecast"
    /\ error = "none"
    /\ issues = {}
    /\ zakkuri_point_field = FALSE
    /\ start_date = 0 /\ end_date = 0 /\ today = 0 /\ current_date = 0
    /\ grid = <<>> /\ dates = <<>> /\ total_points = <<>>
    /\ target_value = 0
    /\ chart_velocity = QZero
    /\ result = NoResult
    /\ completed_points \in SeqsUpTo(CompletedValues, MaxLen)
    /\ num_points \in {1, MaxLen + 2}
    /\ actual_data_length \in 0..(MaxLen + 1)
    /\ interval_days \in IntervalValues
    /\ velocity_multiplier \in MultiplierValues
    /\ \E api \in ApiArguments :
          /\ api_avg_velocity = api[1]
          /\ avg_sprint_duration = api[2]
          /\ api_std_dev = api[3]

NextForecast == Forecast

SpecForecast == InitForecast /\ [][NextForecast]_vars

----------------------------------------------------------------------------
(* calculate_story_points_over_time *)

\* ticks of a day: the resolution of the time of day of a datetime
TicksPerDay == 2
\* latest day of end_date and of today
MaxDay == 3
\* most issues of a run
MaxIssues == 2
\* the grid loop is followed for at most this many buckets
MaxGrid == MaxDay + 2

\* datetime.date()
DateOf(t) == t \div TicksPerDay

\* A field of a ticket: k = "none" (absent, None or ''), "num" (a number),
\* "text" (a value float() rejects), "date" (a timestamp fromisoformat parses,
\* v its date) or "bad" (a string fromisoformat rejects).
Field(k, v) == [k |-> k, v |-> v]
Absent == Field("none", 0)

\* completed_statuses; the two Japanese names are transliterated
completed_statuses == {"Done", "Closed", "Resolved", "Kanryou", "Kuroozu"}

\* story_points after the fallback to the zakkuri field
ResolvedPoints(issue, zakkuri) ==
    IF issue.story_points.k = "none" /\ zakkuri
    THEN issue.zakkuri_points
    ELSE issue.story_points

\* the ticket gets past the three `continue`s: points that float() accepts
\* and a created string
Counted(issue, zakkuri) ==
    /\ ResolvedPoints(issue, zakkuri).k = "num"
    /\ issue.created.k # "none"

\* mutant: only the tickets created on the bucket's own day are in scope
InScopeSameDay(issue, date) == issue.created.v = DateOf(date)

\* mutant: the bucket's own day is not counted
InScopeStrict(issue, date) == issue.created.v < DateOf(date)

\* created_date.date() <= date.date()
InScope(issue, date) == issue.created.v <= DateOf(date)

\* (status in completed_statuses) and resolution_date_str
HasResolution(issue) ==
    issue.status \in completed_statuses /\ issue.resolutiondate.k # "none"

\* mutant: the status is not looked at
IsCompletedAnyStatus(issue, date) ==
    /\ issue.resolutiondate.k # "none"
    /\ issue.resolutiondate.v <= DateOf(date)

\* is_completed
IsCompleted(issue, date) ==
    /\ HasResolution(issue)
    /\ issue.resolutiondate.v <= DateOf(date)

\* is_future
IsFuture(date, now) == DateOf(date) > now

\* datetime.fromisoformat raises ValueError for this ticket at this bucket
RaisesAt(issue, zakkuri, date, now) ==
    /\ Counted(issue, zakkuri)
    /\ \/ issue.created.k = "bad"
       \/ /\ InScope(issue, date)
          /\ ~IsFuture(date, now)
          /\ HasResolution(issue)
          /\ issue.resolutiondate.k = "bad"

RECURSIVE SumPoints(_, _)
SumPoints(S, zakkuri) ==
    IF S = {} THEN 0
    ELSE LET x == CHOOSE y \in S : TRUE
         IN  ResolvedPoints(x, zakkuri).v + SumPoints(S \ {x}, zakkuri)

\* total_points of one bucket
TotalAt(iss, zakkuri, date) ==
    SumPoints({x \in iss : Counted(x, zakkuri) /\ InScope(x, date)}, zakkuri)

\* completed_points of one bucket, before the forward fill
CompletedAt(iss, zakkuri, date, now) ==
    IF IsFuture(date, now) THEN 0
    ELSE SumPoints({x \in iss : /\ Counted(x, zakkuri)
                                /\ InScope(x, date)
                                /\ IsCompleted(x, date)}, zakkuri)

\* mutant: a future bucket keeps its own value
FillFromKeep(ds, completed, now, i, last) == completed

\* the forward-fill loop from index i on; last is None or the last actual value
RECURSIVE FillFrom(_, _, _, _, _)
FillFrom(ds, completed, now, i, last) ==
    IF i > Len(ds) THEN completed
    ELSE IF DateOf(ds[i]) <= now
         THEN FillFrom(ds, completed, now, i + 1, Some(completed[i]))
         ELSE IF ~IsNone(last)
              THEN FillFrom(ds, [completed EXCEPT ![i] = Get(last)], now, i + 1, last)
              ELSE FillFrom(ds, completed, now, i + 1, last)

\* the three lists the method returns, or the exception
calculate_story_points_over_time(iss, zakkuri, ds, now) ==
    IF \E i \in 1..Len(ds) : \E x \in iss : RaisesAt(x, zakkuri, ds[i], now)
    THEN [raised |-> "ValueError", dates |-> <<>>,
          total_points |-> <<>>, completed_points |-> <<>>]
    ELSE [raised |-> "none",
          dates |-> [i \in 1..Len(ds) |-> DateOf(ds[i])],
          total_points |-> [i \in 1..Len(ds) |-> TotalAt(iss, zakkuri, ds[i])],
          completed_points |->
              FillFrom(ds, [i \in 1..Len(ds) |-> CompletedAt(iss, zakkuri, ds[i], now)],
                       now, 1, None)]

UnchangedInputs ==
    UNCHANGED <<issues, zakkuri_point_field, start_date, end_date,
                interval_days, today, api_avg_velocity, avg_sprint_duration,
                api_std_dev, velocity_multiplier>>

\* one turn of `while current_date <= end_date`
GridAppend ==
    /\ pc = "grid"
    /\ current_date <= end_date
    /\ Len(grid) < MaxGrid
    /\ grid' = Append(grid, current_date)
    /\ current_date' = current_date + interval_days * TicksPerDay
    /\ UNCHANGED <<pc, error, dates, total_points, completed_points,
                   actual_data_length, target_value, chart_velocity,
                   num_points, result>>
    /\ UnchangedInputs

\* the loop ends
GridDone ==
    /\ pc = "grid"
    /\ current_date > end_date
    /\ pc' = "aggregate"
    /\ UNCHANGED <<error, current_date, grid, dates, total_points,
                   completed_points, actual_data_length, target_value,
                   chart_velocity, num_points, result>>
    /\ UnchangedInputs

\* the bucket loop, the forward fill and the return
Aggregate ==
    /\ pc = "aggregate"
    /\ LET r == calculate_story_points_over_time(issues, zakkuri_point_field,
                                                 grid, today)
       IN  /\ error' = r.raised
           /\ pc' = IF r.raised = "none" THEN "main" ELSE "error"
           /\ dates' = r.dates
           /\ total_points' = r.total_points
           /\ completed_points' = r.completed_points
    /\ UNCHANGED <<current_date, grid, actual_data_length, target_value,
                   chart_velocity, num_points, result>>
    /\ UnchangedInputs

----------------------------------------------------------------------------
(* Direct calls of calculate_story_points_over_time *)

Issue(id, sp, zp, created, status, resolution) ==
    [id |-> id, story_points |-> sp, zakkuri_points |-> zp,
     created |-> created, status |-> status, resolutiondate |-> resolution]

Num(v) == Field("num", v)
Date(d) == Field("date", d)
Text == Field("text", 0)
Bad == Field("bad", 0)

WellFormedIssues ==
    {Issue("A", Num(5), Absent, Date(-1), "Open", Absent),
     Issue("B", Num(3), Absent, Date(-1), "Done", Date(1)),
     Issue("C", Num(2), Absent, Date(1), "Closed", Date(2)),
     \* a completed status without a resolution date
     Issue("D", Num(2), Absent, Date(0), "Done", Absent),
     \* a resolution date without a completed status
     Issue("E", Num(1), Absent, Date(0), "In Progress", Date(1))}

\* negative points
NegativeIssues ==
    {Issue("F", Num(-2), Absent, Date(2), "Open", Absent)}

MalformedIssues ==
    {\* no story points; zakkuri points when that field is configured
     Issue("G", Absent, Num(4), Date(0), "Resolved", Date(0)),
     \* story points that float() rejects
     Issue("H", Text, Num(4), Date(0), "Done", Date(0)),
     \* no creation date
     Issue("I", Num(3), Absent, Absent, "Done", Date(0)),
     \* an unparsable creation timestamp
     Issue("J", Num(3), Absent, Bad, "Done", Date(0)),
     \* an unparsable resolution timestamp
     Issue("K", Num(3), Absent, Date(0), "Done", Bad)}

IssuePool == WellFormedIssues \cup NegativeIssues \cup MalformedIssues

IssueSets(pool) == {S \in SUBSET pool : Cardinality(S) <= MaxIssues}

IntervalDays == {-1, 0, 1, 2}

\* what the grid and the aggregation read
InitGridInputs ==
    /\ start_date \in {0, 1}
    /\ end_date \in {d * TicksPerDay : d \in -1..MaxDay}
    /\ interval_days \in IntervalDays
    /\ today \in -1..(MaxDay + 1)
    /\ current_date = start_date
    /\ grid = <<>>
    /\ dates = <<>> /\ total_points = <<>> /\ completed_points = <<>>

InitPoints ==
    /\ pc = "grid"
    /\ error = "none"
    /\ issues \in IssueSets(IssuePool)
    /\ zakkuri_point_field \in BOOLEAN
    /\ InitGridInputs
    /\ actual_data_length = 0
    /\ target_value = 0
    /\ api_avg_velocity = None /\ avg_sprint_duration = None /\ api_std_dev = None
    /\ velocity_multiplier = QInt(1)
    /\ chart_velocity = QZero
    /\ num_points = 0
    /\ result = NoResult

NextPoints == GridAppend \/ GridDone \/ Aggregate

SpecPoints == InitPoints /\ [][NextPoints]_vars

----------------------------------------------------------------------------
(* main: from the series to the forecast *)

\* periods added beyond the computed completion ("+ 2")
MarginPeriods == 2
\* periods added when the target is met or is 0 ("+ 5")
MinimumPeriods == 5

\* the number of leading buckets on or before today (the loop breaks at the
\* first later one)
RECURSIVE CountActual(_, _, _)
CountActual(ds, now, i) ==
    IF i > Len(ds) \/ ds[i] > now THEN 0 ELSE 1 + CountActual(ds, now, i + 1)

\* x[-1] if x else 0
LastOrZero(x) == IF x = <<>> THEN 0 ELSE x[Len(x)]

\* temp_velocities: the increments > 0 of the whole completed series
TempVelocities(completed) ==
    IF Len(completed) >= 2
    THEN SelectSeq([i \in 1..(Len(completed) - 1) |->
                      completed[i + 1] - completed[i]],
                   LAMBDA v : v > 0)
    ELSE <<>>

\* chart_velocity
ChartVelocity(completed, interval, api_avg, sprint_duration, multiplier) ==
    IF Get(api_avg) > 0 /\ Get(sprint_duration) > 0
    THEN QMul(QMul(QInt(Get(api_avg)), Q(interval, Get(sprint_duration))), multiplier)
    ELSE LET tv == TempVelocities(completed)
         IN  QMul(IF tv = <<>> THEN QZero ELSE Q(SumSeq(tv), Len(tv)), multiplier)

\* completed_points[actual_data_length - 1] if actual_data_length > 0 else 0
CurrentCompleted(completed, adl) == IF adl > 0 THEN completed[adl] ELSE 0

\* mutant: no "+ 1" after int()
PeriodsToCompleteTruncated(remaining, velocity) ==
    QTrunc(QDiv(QInt(remaining), velocity))

\* periods_to_complete
PeriodsToComplete(remaining, velocity) ==
    QTrunc(QDiv(QInt(remaining), velocity)) + 1

\* mutant: with the target met, five periods beyond the current grid
PeriodsToTargetFromLength(n, completed, target, velocity, adl) ==
    IF target > 0
    THEN LET remaining == target - CurrentCompleted(completed, adl)
         IN  IF remaining > 0
             THEN adl + PeriodsToComplete(remaining, velocity) + MarginPeriods
             ELSE n + MinimumPeriods
    ELSE n + MinimumPeriods

\* periods_to_target, for chart_velocity > 0
PeriodsToTarget(n, completed, target, velocity, adl) ==
    IF target > 0
    THEN LET remaining == target - CurrentCompleted(completed, adl)
         IN  IF remaining > 0
             THEN adl + PeriodsToComplete(remaining, velocity) + MarginPeriods
             ELSE adl + MinimumPeriods
    ELSE n + MinimumPeriods

\* mutant: the appended completed values are 0
AppendedCompletedZero(completed, k) == completed \o [i \in 1..k |-> 0]

\* completed_points after k appends of completed_points[-1]
AppendedCompleted(completed, k) ==
    completed \o [i \in 1..k |-> LastOrZero(completed)]

\* mutant: the appended scope values are 0
AppendedTotalZero(total, k) == total \o [i \in 1..k |-> 0]

\* total_points after k appends of total_points[-1]
AppendedTotal(total, k) == total \o [i \in 1..k |-> LastOrZero(total)]

\* lines 752-780: the series after the extension, or the exception
ExtendGrid(ds, total, completed, target, velocity, adl, interval) ==
    LET same == [raised |-> "none", dates |-> ds,
                 total_points |-> total, completed_points |-> completed]
    IN  IF ~QLt(QZero, velocity) THEN same
        ELSE LET periods_to_target ==
                     PeriodsToTarget(Len(ds), completed, target, velocity, adl)
                 periods_to_add == periods_to_target - Len(ds)
             IN  IF periods_to_target <= Len(ds) THEN same
                 ELSE IF ds = <<>>
                      THEN \* dates[-1] of an empty list
                           [same EXCEPT !.raised = "IndexError"]
                      ELSE [raised |-> "none",
                            dates |-> ds \o [i \in 1..periods_to_add |->
                                               ds[Len(ds)] + interval * i],
                            total_points |-> AppendedTotal(total, periods_to_add),
                            completed_points |->
                                AppendedCompleted(completed, periods_to_add)]

\* lines 698-748: actual_data_length, target_value, chart_velocity
Prepare ==
    /\ pc = "main"
    /\ actual_data_length' = CountActual(dates, today, 1)
    /\ target_value' = LastOrZero(total_points)
    /\ chart_velocity' = ChartVelocity(completed_points, interval_days,
                             api_avg_velocity, avg_sprint_duration,
                             velocity_multiplier)
    /\ pc' = "extend"
    /\ UNCHANGED <<error, current_date, grid, dates, total_points,
                   completed_points, num_points, result>>
    /\ UnchangedInputs

\* lines 750-780: future periods are appended
Extend ==
    /\ pc = "extend"
    /\ LET r == ExtendGrid(dates, total_points, completed_points, target_value,
                           chart_velocity, actual_data_length, interval_days)
       IN  /\ error' = r.raised
           /\ pc' = IF r.raised = "none" THEN "forecast" ELSE "error"
           /\ dates' = r.dates
           /\ total_points' = r.total_points
           /\ completed_points' = r.completed_points
           /\ num_points' = Len(r.dates)
    /\ UNCHANGED <<current_date, grid, actual_data_length, target_value,
                   chart_velocity, result>>
    /\ UnchangedInputs

\* the tickets of a whole run
MainIssuePool ==
    WellFormedIssues \cup NegativeIssues
      \cup {Issue("K", Num(3), Absent, Date(0), "Done", Bad)}

\* (api_avg_velocity, avg_sprint_duration, api_std_dev) as
\* calculate_average_velocity_from_api returns them
ApiResults ==
    {<<Some(0), Some(0), Some(0)>>, <<Some(3), Some(2), Some(0)>>,
     <<Some(3), Some(2), Some(1)>>}

\* JIRA_VELOCITY_ADJUSTMENT, a percentage
VelocityAdjustments == {-100, 0, 50, 100}
PercentBase == 100

Init ==
    /\ pc = "grid"
    /\ error = "none"
    /\ issues \in IssueSets(MainIssuePool)
    /\ zakkuri_point_field = FALSE
    /\ InitGridInputs
    /\ start_date = 0
    /\ actual_data_length = 0
    /\ target_value = 0
    /\ \E api \in ApiResults :
          /\ api_avg_velocity = api[1]
          /\ avg_sprint_duration = api[2]
          /\ api_std_dev = api[3]
    /\ \E adj \in VelocityAdjustments : velocity_multiplier = Q(adj, PercentBase)
    /\ chart_velocity = QZero
    /\ num_points = 0
    /\ result = NoResult

Next == GridAppend \/ GridDone \/ Aggregate \/ Prepare \/ Extend \/ Forecast

Spec == Init /\ [][Next]_vars

----------------------------------------------------------------------------
(* Properties of calculate_velocity_forecast (under SpecForecast) *)

Returned == pc = "done"
CallEnded == pc \in {"done", "error"}

\* non-empty series and 1 <= actual_data_length <= len(completed_points)
NonDegenerateCall ==
    /\ completed_points # <<>>
    /\ 1 <= actual_data_length
    /\ actual_data_length <= Len(completed_points)

SeriesOf(r) == <<r.forecast_avg, r.forecast_optimistic, r.forecast_pessimistic>>

\* z * stdDevPerBucket, the standard deviation scaled by the multiplier
ZStdDev == SScale(z_value, SScale(velocity_multiplier, result.std_dev))

\* C3: a returned non-degenerate call gives three series of length num_points
\* that equal completed[i] below actual_data_length and, from there on, are
\* lastActual + rate * periodsAhead with the rates mean, mean + z*stdDev and
\* max(0, mean - z*stdDev).
C3_ForecastShape ==
    (Returned /\ NonDegenerateCall) =>
        LET last == SInt(completed_points[actual_data_length])
            mean == result.avg_velocity
            up == SAdd(mean, ZStdDev)
            low == SMax0(SSub(mean, ZStdDev), result.rad)
        IN  /\ \A s \in 1..3 : Len(SeriesOf(result)[s]) = num_points
            /\ \A i \in 0..(num_points - 1) :
                  IF i < actual_data_length
                  THEN \A s \in 1..3 :
                          SeriesOf(result)[s][i + 1] = SInt(completed_points[i + 1])
                  ELSE LET periodsAhead == QInt(i - actual_data_length + 1)
                       IN  /\ result.forecast_avg[i + 1]
                                = SAdd(last, SScale(periodsAhead, mean))
                           /\ result.forecast_optimistic[i + 1]
                                = SAdd(last, SScale(periodsAhead, up))
                           /\ result.forecast_pessimistic[i + 1]
                                = SAdd(last, SScale(periodsAhead, low))

\* a returned non-degenerate call with projected buckets, an irrational
\* standard deviation and a mean velocity that is not zero
C3_Witness ==
    /\ Returned /\ NonDegenerateCall
    /\ num_points > actual_data_length + 1
    /\ result.std_dev.b # QZero
    /\ result.avg_velocity # SZero
    /\ result.pessimistic_velocity # SZero

\* the ordering optimistic >= mean >= pessimistic of a returned call, for the
\* scalar velocities and at every index (below actual_data_length the three
\* lines are equal, so this is the ordering of the projected indices)
BandsOrdered ==
    /\ SGe(result.optimistic_velocity, result.avg_velocity, result.rad)
    /\ SGe(result.avg_velocity, result.pessimistic_velocity, result.rad)
    /\ \A i \in 1..Len(result.forecast_avg) :
          /\ SGe(result.forecast_optimistic[i], result.forecast_avg[i], result.rad)
          /\ SGe(result.forecast_avg[i], result.forecast_pessimistic[i], result.rad)

StdDevNonNegative == SGe0(result.std_dev, result.rad)

\* C4 as stated: with a non-negative standard deviation the bands are ordered.
C4_Original == (Returned /\ StdDevNonNegative) => BandsOrdered

\* C4: with a non-negative standard deviation, a non-negative multiplier and
\* a non-negative mean velocity, optimistic >= mean >= pessimistic holds for
\* the scalar velocities and at every projected index.
C4_BandsOrdered ==
    (/\ Returned
     /\ StdDevNonNegative
     /\ QLe(QZero, velocity_multiplier)
     /\ SGe0(result.avg_velocity, result.rad)) => BandsOrdered

\* the three lines differ at a projected index
C4_Witness ==
    /\ Returned /\ NonDegenerateCall
    /\ StdDevNonNegative
    /\ QLe(QZero, velocity_multiplier)
    /\ SGe0(result.avg_velocity, result.rad)
    /\ num_points > actual_data_length
    /\ result.forecast_optimistic[num_points] # result.forecast_avg[num_points]
    /\ result.forecast_avg[num_points] # result.forecast_pessimistic[num_points]
    /\ result.pessimistic_velocity # SZero

ZeroFilled ==
    /\ \A s \in 1..3 : SeriesOf(result)[s] = Zeros(num_points)
    /\ result.avg_velocity = SZero
    /\ result.optimistic_velocity = SZero
    /\ result.pessimistic_velocity = SZero

\* C8 as stated: an empty series, actual_data_length < 1 or actual_data_length
\* beyond the series gives zero-filled series and zero velocities.
C8_Original ==
    (/\ Returned
     /\ \/ completed_points = <<>>
        \/ actual_data_length < 1
        \/ actual_data_length > Len(completed_points)) => ZeroFilled

\* C8: an empty series or actual_data_length < 1 gives zero-filled series of
\* length num_points and zero velocities; an actual_data_length beyond a
\* non-empty series is clamped to the length of the series, so the whole
\* series is kept as history and the projection starts from its last value.
C8_DegenerateInputs ==
    /\ (CallEnded /\ (completed_points = <<>> \/ actual_data_length < 1))
          => (Returned /\ ZeroFilled)
    /\ (/\ Returned
        /\ completed_points # <<>>
        /\ actual_data_length > Len(completed_points))
          => LET n == Len(completed_points)
             IN  /\ \A s \in 1..3 : Len(SeriesOf(result)[s]) = num_points
                 /\ \A i \in 1..num_points :
                       IF i <= n
                       THEN \A s \in 1..3 :
                               SeriesOf(result)[s][i] = SInt(completed_points[i])
                       ELSE result.forecast_avg[i]
                              = SAdd(SInt(completed_points[n]),
                                     SScale(QInt(i - n), result.avg_velocity))

\* both cases happen: a zero-filled return with buckets, and a clamped call
\* whose projection is not zero
C8_Witness ==
    /\ Returned
    /\ completed_points # <<>>
    /\ actual_data_length > Len(completed_points)
    /\ num_points > Len(completed_points)
    /\ result.forecast_avg[num_points] # SZero
    /\ result.avg_velocity # SZero

\* C9: a call with a non-empty series and actual_data_length >= 1 returns
\* normally, and with fewer than two retained increments and no usable
\* external estimate the three velocities it returns are 0.
C9_NeverFails ==
    (/\ CallEnded
     /\ completed_points # <<>>
     /\ actual_data_length >= 1) =>
        /\ Returned
        /\ (/\ Len(Velocities(ActualCompleted(completed_points, actual_data_length))) < 2
            /\ ~ApiUsable(api_avg_velocity, avg_sprint_duration))
              => /\ result.avg_velocity = SZero
                 /\ result.optimistic_velocity = SZero
                 /\ result.pessimistic_velocity = SZero

----------------------------------------------------------------------------
(* Properties of calculate_story_points_over_time (under SpecPoints) *)

PointsReturned == pc = "main"
PointsEnded == pc \in {"main", "error"}

\* the ticket has resolvable points and a creation date on or before day d
CreatedBy(x, d) ==
    /\ ResolvedPoints(x, zakkuri_point_field).k = "num"
    /\ x.created.k = "date"
    /\ x.created.v <= d

\* ... and a completed status and a resolution date on or before day d
ResolvedBy(x, d) ==
    /\ CreatedBy(x, d)
    /\ x.status \in {"Done", "Closed", "Resolved", "Kanryou", "Kuroozu"}
    /\ x.resolutiondate.k = "date"
    /\ x.resolutiondate.v <= d

\* C1: in the returned series totalScope[d] is the sum of the points of the
\* tickets with resolvable points created on or before d, and for d <= now
\* completedScope[d] is the sum over those of them that have a completed
\* status and a resolution date on or before d.
C1_BucketSums ==
    PointsReturned =>
        /\ Len(total_points) = Len(dates)
        /\ Len(completed_points) = Len(dates)
        /\ \A i \in 1..Len(dates) :
              /\ total_points[i]
                   = SumPoints({x \in issues : CreatedBy(x, dates[i])},
                               zakkuri_point_field)
              /\ dates[i] <= today =>
                   completed_points[i]
                     = SumPoints({x \in issues : ResolvedBy(x, dates[i])},
                                 zakkuri_point_field)

\* scope and completion both grow along the actual buckets
C1_Witness ==
    /\ PointsReturned
    /\ \E i, j \in 1..Len(dates) :
          /\ i < j /\ dates[j] <= today
          /\ total_points[i] < total_points[j]
    /\ \E i, j \in 1..Len(dates) :
          /\ i < j /\ dates[j] <= today
          /\ 0 < completed_points[i]
          /\ completed_points[i] < completed_points[j]

\* the buckets on or before now
ActualBuckets == {j \in 1..Len(dates) : dates[j] <= today}

\* C2: every bucket after now carries the completed value of the latest
\* bucket on or before now; with no such bucket completed is 0 everywhere.
C2_ForwardFill ==
    PointsReturned =>
        IF ActualBuckets = {}
        THEN \A i \in 1..Len(dates) : completed_points[i] = 0
        ELSE LET j == CHOOSE k \in ActualBuckets : \A m \in ActualBuckets : m <= k
             IN  \A i \in 1..Len(dates) :
                    dates[i] > today => completed_points[i] = completed_points[j]

\* a bucket after now carries a value that is not zero, although a ticket was
\* resolved after now and before that bucket
C2_Witness ==
    /\ PointsReturned
    /\ \E i \in 1..Len(dates) :
          /\ dates[i] > today
          /\ completed_points[i] > 0
          /\ \E x \in issues :
                /\ ResolvedBy(x, dates[i])
                /\ x.resolutiondate.v > today

\* missing or non-numeric points, a missing or unparsable creation date, an
\* unparsable resolution date
Malformed(x) ==
    \/ ResolvedPoints(x, zakkuri_point_field).k # "num"
    \/ x.created.k # "date"
    \/ x.resolutiondate.k = "bad"

\* C10: the call returns without raising, and what it returns is the series
\* of the ticket set with the malformed tickets removed.
C10_MalformedExcluded ==
    PointsEnded =>
        /\ PointsReturned
        /\ LET r == calculate_story_points_over_time(
                        {x \in issues : ~Malformed(x)}, zakkuri_point_field,
                        grid, today)
           IN  /\ total_points = r.total_points
               /\ completed_points = r.completed_points

----------------------------------------------------------------------------
(* Properties of a whole run (under Spec) *)

\* non-negative points and parsable dates
WellFormed(x) ==
    /\ ~Malformed(x)
    /\ ResolvedPoints(x, zakkuri_point_field).v >= 0

\* the extension step has run and appended buckets
Extended == pc \in {"forecast", "done"} /\ Len(dates) > Len(grid)

\* C5: with well-formed tickets completedScope[i] <= totalScope[i] at every
\* bucket of the series, forward-filled and appended buckets included.
C5_ScopeContainment ==
    (\A x \in issues : WellFormed(x)) =>
        /\ Len(total_points) = Len(dates)
        /\ Len(completed_points) = Len(dates)
        /\ \A i \in 1..Len(dates) : completed_points[i] <= total_points[i]

\* an extended series of well-formed tickets whose last actual bucket is
\* followed by forward-filled buckets, with work completed and work left
C5_Witness ==
    /\ Extended
    /\ \A x \in issues : WellFormed(x)
    /\ actual_data_length < Len(grid)
    /\ completed_points[Len(dates)] > 0
    /\ completed_points[Len(dates)] < total_points[Len(dates)]

\* targetScope - lastActualCompleted
Remaining == target_value - CurrentCompleted(completed_points, actual_data_length)

\* C6: with a mean velocity > 0 and remaining > 0 the extended grid is long
\* enough for the mean forecast to reach the target: its last element is
\* at least targetScope.
C6_ForecastReachesTarget ==
    (/\ pc = "done"
     /\ QLt(QZero, chart_velocity)
     /\ QLt(QZero, result.avg_velocity.a)
     /\ Remaining > 0) =>
        /\ result.forecast_avg # <<>>
        /\ SGe(result.forecast_avg[Len(result.forecast_avg)],
               SInt(target_value), result.rad)

\* the extension step applied once more to the state it left
ExtendedAgain ==
    ExtendGrid(dates, total_points, completed_points, target_value,
               chart_velocity, actual_data_length, interval_days)

AppendsNothing ==
    /\ ExtendedAgain.raised = "none"
    /\ ExtendedAgain.dates = dates
    /\ ExtendedAgain.total_points = total_points
    /\ ExtendedAgain.completed_points = completed_points

\* C7 as stated: a second application of the extension step appends nothing.
C7_Original == pc = "forecast" => AppendsNothing

\* C7: a second application of the extension step with the same target,
\* velocity and actual_data_length appends nothing when targetScope > 0 (or
\* the velocity is not positive); with targetScope <= 0 and a positive
\* velocity it appends five more buckets.
C7_Idempotence ==
    pc = "forecast" =>
        IF target_value > 0 \/ ~QLt(QZero, chart_velocity)
        THEN AppendsNothing
        ELSE /\ ExtendedAgain.raised = "none"
             /\ Len(ExtendedAgain.dates) = Len(dates) + MinimumPeriods
             /\ SubSeq(ExtendedAgain.dates, 1, Len(dates)) = dates

\* the first application appended buckets, with work left and with the
\* target met
C7_Witness ==
    /\ Extended /\ pc = "forecast"
    /\ target_value > 0
    /\ Remaining <= 0
    /\ Len(dates) = actual_data_length + MinimumPeriods

\* an interval of zero or negative days, an end date before the start date,
\* or no tickets
Misconfigured ==
    \/ interval_days <= 0
    \/ end_date < start_date
    \/ issues = {}

\* a turn of the grid loop moves current_date towards end_date
GridLoopAdvances ==
    (pc = "grid" /\ current_date <= end_date) =>
        current_date + interval_days * TicksPerDay > current_date

\* C11: a misconfigured run (interval <= 0, end date before start date or no
\* tickets) never raises and never stays in the grid loop for ever, whatever
\* the external velocity statistics are, and the series it ends with are
\* empty or zero-filled.
C11_MisconfigurationTerminates ==
    Misconfigured =>
        /\ pc # "error"
        /\ GridLoopAdvances
        /\ pc = "done" =>
              /\ \A i \in 1..Len(total_points) : total_points[i] = 0
              /\ \A i \in 1..Len(completed_points) : completed_points[i] = 0

\* the extension step appended nothing and both series are zero
ZeroSeriesOfGridLength ==
    /\ Len(dates) = Len(grid)
    /\ total_points = [i \in 1..Len(grid) |-> 0]
    /\ completed_points = [i \in 1..Len(grid) |-> 0]

\* the three forecast series are zero, of the length of the grid, and the
\* mean velocity is 0
ZeroForecastOfGridLength ==
    /\ \A s \in 1..3 : SeriesOf(result)[s] = Zeros(Len(grid))
    /\ result.avg_velocity = SZero

\* C12: a run with no tickets ends without an exception; the extension step
\* appends nothing, totalScope and completedScope are zero at every bucket of
\* the requested grid, and the forecast returns three zero series of that
\* length and a mean velocity of 0.
C12_ZeroItems ==
    issues = {} =>
        /\ pc # "error"
        /\ pc \in {"forecast", "done"} => ZeroSeriesOfGridLength
        /\ pc = "done" => ZeroForecastOfGridLength

\* every ticket whose points resolve to a number has points >= 0
NonNegativePoints ==
    \A x \in issues :
        ResolvedPoints(x, zakkuri_point_field).k = "num"
            => ResolvedPoints(x, zakkuri_point_field).v >= 0

\* C13: with non-negative points totalScope[i] <= totalScope[i+1] for every
\* pair of consecutive buckets, the appended buckets included.
C13_ScopeNonDecreasing ==
    NonNegativePoints =>
        \A i \in 1..(Len(total_points) - 1) : total_points[i] <= total_points[i + 1]

\* an extended series whose scope grows inside the grid and is carried into
\* the appended buckets
C13_Witness ==
    /\ Extended
    /\ NonNegativePoints
    /\ \E i \in 1..(Len(grid) - 1) : total_points[i] < total_points[i + 1]
    /\ total_points[Len(total_points)] = total_points[Len(grid)]
    /\ total_points[Len(grid)] > 0

----------------------------------------------------------------------------
(* The two velocity estimates (under SpecForecast) *)

\* a call with a non-empty series and actual_data_length >= 1
EstimatingCall == completed_points # <<>> /\ actual_data_length >= 1

\* intervalDays / periodicDays
PeriodRatio == Q(interval_days, Get(avg_sprint_duration))

\* periodicMean * (intervalDays / periodicDays) * multiplier
ExternalMean ==
    QMul(QMul(QInt(Get(api_avg_velocity)), PeriodRatio), velocity_multiplier)

\* periodicStdDev * (intervalDays / periodicDays) * multiplier
ExternalStdDev ==
    SRat(QMul(QMul(QInt(Get(api_std_dev)), PeriodRatio), velocity_multiplier))

\* the standard deviation of the history, times the multiplier
HistoryStdDev ==
    SScale(velocity_multiplier,
           DerivedEstimate(Velocities(ActualCompleted(completed_points,
                                                      actual_data_length)),
                           velocity_multiplier).std_dev)

\* the optimistic and pessimistic rates are mean +- z * sd, the latter
\* floored at 0
RatesUse(sd) ==
    /\ result.optimistic_velocity
         = SAdd(result.avg_velocity, SScale(z_value, sd))
    /\ result.pessimistic_velocity
         = SMax0(SSub(result.avg_velocity, SScale(z_value, sd)), result.rad)

\* C14 as stated: with periodicMean > 0 and periodicDays > 0 the returned
\* mean is the rescaled external mean and the rates use the rescaled external
\* standard deviation.
C14_Original ==
    (/\ Returned /\ EstimatingCall
     /\ ApiUsable(api_avg_velocity, avg_sprint_duration)
     /\ ~IsNone(api_std_dev)) =>
        /\ result.avg_velocity = SRat(ExternalMean)
        /\ RatesUse(ExternalStdDev)

\* the call of the example: 20 per 14 days, interval 7, multiplier 1.0
TwentyPerFortnight ==
    calculate_velocity_forecast(<<0>>, 1, 7, 1, Some(20), Some(14), None, QInt(1))

\* C14: for a non-empty series and actual_data_length >= 1, with
\* periodicMean > 0 and periodicDays > 0 the returned mean is
\* periodicMean * (intervalDays / periodicDays) * multiplier whatever the
\* history is; the rates use periodicStdDev rescaled the same way when it is
\* supplied and > 0, and otherwise the standard deviation of the history
\* times the multiplier.  20 per 14 days at an interval of 7 gives 10.
C14_ExternalRescaling ==
    /\ TwentyPerFortnight.avg_velocity = SInt(10)
    /\ (/\ Returned /\ EstimatingCall
        /\ ApiUsable(api_avg_velocity, avg_sprint_duration)) =>
           /\ result.avg_velocity = SRat(ExternalMean)
           /\ RatesUse(IF ~IsNone(api_std_dev) /\ Get(api_std_dev) > 0
                       THEN ExternalStdDev
                       ELSE HistoryStdDev)

\* an external estimate with a standard deviation replaces a different
\* estimate that the history gives, and the three rates differ
C14_Witness ==
    /\ Returned /\ NonDegenerateCall
    /\ ApiUsable(api_avg_velocity, avg_sprint_duration)
    /\ ~IsNone(api_std_dev) /\ Get(api_std_dev) > 0
    /\ LET derived == DerivedEstimate(
                          Velocities(ActualCompleted(completed_points,
                                                     actual_data_length)),
                          velocity_multiplier)
       IN  /\ derived.bound
           /\ derived.std_dev # SZero
           /\ SRat(derived.avg_velocity) # result.avg_velocity
    /\ result.optimistic_velocity # result.avg_velocity
    /\ result.pessimistic_velocity # SZero
    /\ PeriodRatio # QInt(1)

\* delta[i] = completed[i] - completed[i-1], with the buckets counted from 1
Delta(i) == completed_points[i + 1] - completed_points[i]

\* the deltas of the actual prefix that are kept: those that are not negative
RetainedDeltas == {i \in 1..(actual_data_length - 1) : Delta(i) >= 0}

RECURSIVE DeltaSum(_)
DeltaSum(S) ==
    IF S = {} THEN 0
    ELSE LET i == CHOOSE j \in S : TRUE IN Delta(i) + DeltaSum(S \ {i})

RetainedMean == Q(DeltaSum(RetainedDeltas), Cardinality(RetainedDeltas))

RECURSIVE SquaredDeviations(_)
SquaredDeviations(S) ==
    IF S = {} THEN QZero
    ELSE LET i == CHOOSE j \in S : TRUE
             dv == QSub(QInt(Delta(i)), RetainedMean)
         IN  QAdd(QMul(dv, dv), SquaredDeviations(S \ {i}))

\* the population variance: divided by N
RetainedVariance ==
    QDiv(SquaredDeviations(RetainedDeltas), QInt(Cardinality(RetainedDeltas)))

\* x is the non-negative square root of v
IsSqrtOf(x, v) ==
    IF x.b = QZero
    THEN QLe(QZero, x.a) /\ QMul(x.a, x.a) = v
    ELSE x.a = QZero /\ x.b = QInt(1) /\ result.rad = v /\ ~QIsSquare(v)

\* the call of the example: a history with the deltas 4, -1, 6
FourMinusOneSix ==
    calculate_velocity_forecast(<<0, 4, 3, 9>>, 4, 1, 4, None, None, None, QInt(1))

\* C16: with no usable external estimate, a call with
\* 1 <= actualDataLength <= len(completed) and at least 2 non-negative deltas
\* in the actual prefix returns mean velocity = multiplier * average of the
\* non-negative deltas of the prefix (zeros included, negative ones left out)
\* and their population standard deviation.  Deltas [4, -1, 6] give mean 5
\* and standard deviation 1.
C16_DerivedEstimate ==
    /\ FourMinusOneSix.avg_velocity = SInt(5)
    /\ FourMinusOneSix.std_dev = SInt(1)
    /\ (/\ CallEnded /\ NonDegenerateCall
        /\ ~ApiUsable(api_avg_velocity, avg_sprint_duration)
        /\ Cardinality(RetainedDeltas) >= 2) =>
           /\ Returned
           /\ result.avg_velocity = SRat(QMul(velocity_multiplier, RetainedMean))
           /\ IsSqrtOf(result.std_dev, RetainedVariance)

\* a negative delta is left out and a zero delta is kept, and the estimate
\* has a mean and a standard deviation that are not zero
C16_Witness ==
    /\ Returned /\ NonDegenerateCall
    /\ ~ApiUsable(api_avg_velocity, avg_sprint_duration)
    /\ \E i \in 1..(actual_data_length - 1) : Delta(i) < 0
    /\ \E i \in RetainedDeltas : Delta(i) = 0
    /\ result.avg_velocity # SZero
    /\ result.std_dev # SZero

----------------------------------------------------------------------------
(* The extension step of main (under Spec) *)

\* ceil(remaining / v), for remaining > 0 and v > 0
CeilPeriods ==
    LET q == QDiv(QInt(Remaining), chart_velocity)
    IN  IF QInt(QTrunc(q)) = q THEN QTrunc(q) ELSE QTrunc(q) + 1

\* the whole periods that fit: the k with k * v <= remaining < (k + 1) * v
FloorPeriods ==
    CHOOSE k \in 0..(Remaining * chart_velocity[2]) :
        /\ QLe(QMul(QInt(k), chart_velocity), QInt(Remaining))
        /\ QLt(QInt(Remaining), QMul(QInt(k + 1), chart_velocity))

\* the target grid length for a velocity > 0, given the periods to complete
TargetLength(periods) ==
    IF target_value > 0
    THEN IF Remaining > 0
         THEN actual_data_length + periods + MarginPeriods
         ELSE actual_data_length + MinimumPeriods
    ELSE Len(grid) + MinimumPeriods

\* the grid has the target length if that is longer, else its own length
GridLengthIs(target) ==
    Len(dates) = IF target > Len(grid) THEN target ELSE Len(grid)

\* C15 as stated: the periods to complete are ceil(remaining / v).
C15_Original ==
    pc = "forecast" =>
        IF QLt(QZero, chart_velocity)
        THEN GridLengthIs(TargetLength(IF Remaining > 0 THEN CeilPeriods ELSE 0))
        ELSE Len(dates) = Len(grid)

\* C15: with v > 0 the target grid length is actualDataLength +
\* (floor(remaining / v) + 1) + 2 when remaining > 0, currentLength + 5 when
\* targetScope <= 0 and actualDataLength + 5 when the target is met; buckets
\* are appended only when the target exceeds the current length, and then
\* the grid has exactly the target length; with v <= 0 nothing is appended;
\* and with an empty grid and v > 0 the step raises IndexError.
C15_TargetLength ==
    /\ pc = "forecast" =>
          IF QLt(QZero, chart_velocity)
          THEN /\ grid # <<>>
               /\ GridLengthIs(TargetLength(IF Remaining > 0
                                            THEN FloorPeriods + 1 ELSE 0))
          ELSE Len(dates) = Len(grid)
    /\ (pc = "error" /\ error = "IndexError") =>
          (grid = <<>> /\ QLt(QZero, chart_velocity))
    /\ (pc \in {"forecast", "done"} /\ QLt(QZero, chart_velocity)) => grid # <<>>

\* buckets were appended for a remaining scope that is a whole number of
\* periods of the velocity
C15_Witness ==
    /\ Extended /\ pc = "forecast"
    /\ Remaining > 0
    /\ QDiv(QInt(Remaining), chart_velocity)[2] = 1
    /\ Len(dates) = actual_data_length + CeilPeriods + 1 + MarginPeriods

\* C17: the velocity the extension step used (chart_velocity) is the mean
\* velocity calculate_velocity_forecast returns for the same series,
\* actual_data_length, external statistics and multiplier, with an external
\* estimate and with the estimate derived from the history alike.
C17_SameVelocity ==
    (pc = "done" /\ completed_points # <<>> /\ actual_data_length >= 1) =>
        result.avg_velocity = SRat(chart_velocity)

\* s is t followed by zero or more further elements
Extends(s, t) == Len(s) >= Len(t) /\ SubSeq(s, 1, Len(t)) = t

\* C18: a step of the extension keeps every existing entry of dates,
\* totalScope and completedScope in place, leaves the three sequences equally
\* long, puts each appended date interval_days after the date before it and
\* gives every appended bucket the last totalScope and completedScope values
\* from before the step.
C18_AppendOnly ==
    [][pc = "extend" =>
          /\ Extends(dates', dates)
          /\ Extends(total_points', total_points)
          /\ Extends(completed_points', completed_points)
          /\ Len(total_points') = Len(dates')
          /\ Len(completed_points') = Len(dates')
          /\ \A i \in (Len(dates) + 1)..Len(dates') :
                /\ dates'[i] = dates'[i - 1] + interval_days
                /\ total_points'[i] = total_points[Len(total_points)]
                /\ completed_points'[i] = completed_points[Len(completed_points)]
      ]_vars

\* several buckets were appended at an interval of two days, with work
\* completed and work left
C18_Witness ==
    /\ Extended /\ pc = "forecast"
    /\ Len(dates) >= Len(grid) + 2
    /\ interval_days = 2
    /\ dates[Len(dates)] = dates[Len(grid)] + 2 * (Len(dates) - Len(grid))
    /\ completed_points[Len(dates)] > 0
    /\ total_points[Len(dates)] > completed_points[Len(dates)]

====
